---- MODULE Spec2Model ----
(***************************************************************************)
(* A model of the ecosystem simulator (src/ecosystem_sim): World, Plant,   *)
(* Simulation and the run loop of main().                                  *)
(*                                                                         *)
(* Numbers.  The program computes with Python floats.  The model keeps     *)
(* every float as an integer count of units of 10^-6 (Scale units = 1.0)   *)
(* and truncates each product to the unit.  Two float facts that decide    *)
(* branches are kept as they are in the program:                           *)
(*   - math.sin(math.pi) is 1.22e-16, not 0, so the light of hour 12 is    *)
(*     positive; it is held as one unit, the smallest positive amount;     *)
(*   - a product of two positive floats of these magnitudes is positive    *)
(*     (no underflow), so growth_factor > 0 exactly when both the light    *)
(*     and the water are positive.                                         *)
(*                                                                         *)
(* Randomness.  Every random.random()/random.randint() call is a choice    *)
(* (\E) over the outcomes the call can have.                               *)
(***************************************************************************)
EXTENDS Integers, Sequences, FiniteSets, TLC

VARIABLES
    world,       \* Simulation.world: [width, height, time, hour, day, grid]
    plants,      \* Simulation.plants: the live collection, a sequence of Plant records
    atmosphere,  \* Simulation.atmosphere: [co2, o2, water] (water absent = 0)
    nextId,      \* object identity: the id the next Plant object gets
    pc,          \* where the Simulation is: "seed" (inside __init__), "ready", "unit"
    seed,        \* position of _seed_initial_plants: [i, attempt]
    ret,         \* what the last call did and returned: [op |-> ..., ...]
    hist,        \* counters over the run: [rained, seeded, gone, updates, calls]
    lim,         \* the bounds of the run: [time, events, seeds, spread, first,
                 \* wet, rain]
    main         \* the run loop of main(): [pc, days, out]

vars == <<world, plants, atmosphere, nextId, pc, seed, ret, hist, lim, main>>

-----------------------------------------------------------------------------
(* Bounds of the model *)

\* update() is not called once world.time has reached MaxTime (in the run of
\* a plant's whole life: LifeTime).
MaxTime == 64
LifeTime == 112
\* The cells the seeds of that run are spread over.
LifeSpread == 10
\* At most MaxEvents random events that change the state are drawn in one
\* run: a rain that moves water, a reproduce() call that returns seeds.
MaxEvents == 1
\* The run of the rains: update() is called up to RainTime, and the rain
\* moves water RainEvents times at most.
RainTime == 44
RainEvents == 2
\* The runs of the world with a lake: update() is called up to LakeTime where
\* it rains, up to ShoreTime where the plants bear offspring; the plants are
\* seeded on LakeSpread cells of the row above the lake, from cell number
\* LakeFirst on, and the draws of the first LakeWet plants can fall on the
\* lake.
LakeTime == 31
ShoreTime == 56
LakeSpread == 5
LakeFirst == 27
LakeWet == 1
\* Worlds of the World specification are at most MaxDim wide and high, and
\* their time is advanced up to WorldTime.
MaxDim == 17
WorldTime == 25
\* main() is run with --days up to MaxDays.
MaxDays == 2
\* At most MaxCalls grow()/reproduce() calls are made on the plant under test.
MaxCalls == 1

-----------------------------------------------------------------------------
(* Fixed-point numbers *)

Scale == 1000 * 1000

\* The decimal literal n/d.
F(n, d) == (n * Scale) \div d

\* a * (n/d), truncated to the unit.
Frac(a, n, d) == (a * n) \div d

Min(a, b) == IF a <= b THEN a ELSE b
Max(a, b) == IF a >= b THEN a ELSE b

-----------------------------------------------------------------------------
(* Program constants *)

HOURS_PER_DAY == 24
LAKE_DIVISOR == 8
NUM_PLANTS == 20
SEED_TRIES == 10
REPRO_AGE == 30
OLD_AGE == 100
DAY_START == 6
DAY_END == 18

SOIL_WATER == F(7, 10)
REPRO_SIZE == F(3, 10)
ATMOSPHERE_START == 100 * Scale
ATMOSPHERE_FLOOR == 50 * Scale

-----------------------------------------------------------------------------
(* World *)

Cells(w, h) == (0 .. w - 1) \X (0 .. h - 1)

None == [type |-> "none"]

SoilCell ==
    [type |-> "soil", light |-> 0, water |-> SOIL_WATER,
     temperature |-> 20 * Scale, resources |-> Scale]

\* Mutant of SqrtLess: the lake keeps its rim (<= for <).
SqrtLess_rim(d2, r) == d2 <= r * r

\* math.sqrt(d2) < r for integers d2 >= 0 and r >= 0.
SqrtLess(d2, r) == d2 < r * r

add_water_bodies(w) ==
    LET lake_center_x == w.width \div 2
        lake_center_y == w.height \div 2
        lake_radius == Min(w.width, w.height) \div LAKE_DIVISOR
        inLake(c) ==
            SqrtLess((c[1] - lake_center_x) * (c[1] - lake_center_x)
                       + (c[2] - lake_center_y) * (c[2] - lake_center_y),
                     lake_radius)
    IN [w EXCEPT !.grid =
            [c \in DOMAIN w.grid |->
                IF inLake(c)
                THEN [w.grid[c] EXCEPT !.type = "water", !.water = Scale]
                ELSE w.grid[c]]]

World(width, height) ==
    add_water_bodies(
        [width |-> width, height |-> height, time |-> 0, hour |-> 0, day |-> 0,
         grid |-> [c \in Cells(width, height) |-> SoilCell]])

\* math.sin((h / 24) * math.pi * 2) for the integer hours h = 0 .. 23, in
\* units; hour 12 is the float 1.22e-16, held as one unit.
SinTable ==
    <<0, 258819, 500000, 707107, 866025, 965926, 1000000, 965926, 866025,
      707107, 500000, 258819, 1, -258819, -500000, -707107, -866025, -965926,
      -1000000, -965926, -866025, -707107, -500000, -258819>>

\* Mutant of light_level: the sine is not clamped at 0.
light_level_unclamped(time_of_day) == SinTable[time_of_day + 1]

light_level(time_of_day) == Max(0, SinTable[time_of_day + 1])

update_lighting(w, time_of_day) ==
    [w EXCEPT !.grid =
        [c \in DOMAIN w.grid |-> [w.grid[c] EXCEPT !.light = light_level(time_of_day)]]]

get_cell(w, x, y) ==
    IF 0 <= x /\ x < w.width /\ 0 <= y /\ y < w.height
    THEN w.grid[<<x, y>>]
    ELSE None

\* Mutant of advance_time: the day is advanced on the hour before the update.
advance_time_stale(w) ==
    LET hour1 == (w.hour + 1) % HOURS_PER_DAY
        w1 == [w EXCEPT !.time = w.time + 1,
                        !.hour = hour1,
                        !.day = IF w.hour = 0 THEN w.day + 1 ELSE w.day]
    IN update_lighting(w1, w1.hour)

advance_time(w) ==
    LET hour1 == (w.hour + 1) % HOURS_PER_DAY
        w1 == [w EXCEPT !.time = w.time + 1,
                        !.hour = hour1,
                        !.day = IF hour1 = 0 THEN w.day + 1 ELSE w.day]
    IN update_lighting(w1, w1.hour)

-----------------------------------------------------------------------------
(* Plant *)

Plant(position, id) ==
    [id |-> id, position |-> position, age |-> 0, health |-> 100 * Scale,
     size |-> F(1, 10), co2_absorbed |-> 0, o2_produced |-> 0]

\* min(sunlight, water) * 0.2: positive exactly when both are positive.
growth_factor(sunlight, water) ==
    IF Min(sunlight, water) > 0
    THEN Max(1, Frac(Min(sunlight, water), 2, 10))
    ELSE Frac(Min(sunlight, water), 2, 10)

\* The value of a computation that has one outcome.  (An operator's argument
\* is evaluated where it is used; a value bound by a set is evaluated once.)
Only(S) == CHOOSE v \in S : TRUE

\* Mutant of senescent: the age before this call is looked at.
senescent_before(p, p1) == p.age > OLD_AGE

\* The test `self.age > 100` that ends grow(): p is the plant before the call,
\* p1 the plant the growth part has left.
senescent(p, p1) == p1.age > OLD_AGE

\* Mutant of grow_by: the plant ages in every call.
grow_by_always_ages(p, w, cell, g) ==
    LET p1 == IF g > 0
              THEN [p EXCEPT !.age = p.age + 1,
                             !.size = Min(p.size + Frac(g, 1, 10), Scale),
                             !.co2_absorbed = p.co2_absorbed + g,
                             !.o2_produced = p.o2_produced + g]
              ELSE [p EXCEPT !.age = p.age + 1,
                             !.health = p.health - 2 * Scale]
        w1 == IF g > 0
              THEN [w EXCEPT !.grid[p.position].water =
                                 Max(0, cell.water - Frac(g, 5, 100))]
              ELSE w
    IN Only({[plant |-> p2, world |-> w1, alive |-> p2.health > 0] :
               p2 \in {IF senescent(p, p1)
                       THEN [p1 EXCEPT !.health = p1.health - F(1, 2)]
                       ELSE p1}})

\* The soil branch of grow() once growth_factor is known.
grow_by(p, w, cell, g) ==
    LET p1 == IF g > 0
              THEN [p EXCEPT !.age = p.age + 1,
                             !.size = Min(p.size + Frac(g, 1, 10), Scale),
                             !.co2_absorbed = p.co2_absorbed + g,
                             !.o2_produced = p.o2_produced + g]
              ELSE [p EXCEPT !.health = p.health - 2 * Scale]
        w1 == IF g > 0
              THEN [w EXCEPT !.grid[p.position].water =
                                 Max(0, cell.water - Frac(g, 5, 100))]
              ELSE w
    IN Only({[plant |-> p2, world |-> w1, alive |-> p2.health > 0] :
               p2 \in {IF senescent(p, p1)
                       THEN [p1 EXCEPT !.health = p1.health - F(1, 2)]
                       ELSE p1}})

\* grow() once world.get_cell(x, y) has returned cell.
grow_at(p, w, cell) ==
    IF cell = None \/ cell.type # "soil"
    THEN LET p1 == [p EXCEPT !.health = p.health - 10 * Scale]
         IN [plant |-> p1, world |-> w, alive |-> p1.health > 0]
    ELSE Only({grow_by(p, w, cell, g) :
                 g \in {growth_factor(cell.light, cell.water)}})

\* Plant.grow(): [plant, world, alive], the plant and the world after the call
\* and the value returned.
grow(p, w) ==
    Only({grow_at(p, w, cell) :
            cell \in {get_cell(w, p.position[1], p.position[2])}})

\* Mutant of IsSoil: any cell of the grid will do.
IsSoil_any_cell(cell) == cell # None

\* The test `cell and cell['type'] == 'soil'`.
IsSoil(cell) == cell # None /\ cell.type = "soil"

Offsets == <<-1, 0, 1>>

\* The neighbours whose 30% coin reproduce() can draw: the soil cells around p.
SoilNeighbours(p, w) ==
    {c \in {<<p.position[1] + dx, p.position[2] + dy>> : dx \in -1 .. 1, dy \in -1 .. 1} :
        c # p.position /\ IsSoil(get_cell(w, c[1], c[2]))}

\* Mutant of eligible: one of the two bounds is enough.
eligible_either(p) == ~(p.age < REPRO_AGE /\ p.size < REPRO_SIZE)

eligible(p) == ~(p.age < REPRO_AGE \/ p.size < REPRO_SIZE)

\* The outcomes of random.random() < health / 100 * size: the draw is in [0, 1).
Rolls(p) ==
    {b \in BOOLEAN :
        \/ b /\ p.health > 0 /\ p.size > 0
        \/ ~b /\ ~(p.health >= 100 * Scale /\ p.size >= Scale)}

\* The inner loop over dy for one dx: the seed of the first neighbour that is
\* soil and passes its coin; the break leaves this loop only.  coins is the
\* set of the neighbours whose draw random.random() < 0.3 comes out true.
column(p, w, dx, coins) ==
    LET at(k) == <<p.position[1] + dx, p.position[2] + Offsets[k]>>
        ok(k) == /\ ~(dx = 0 /\ Offsets[k] = 0)
                 /\ IsSoil(get_cell(w, at(k)[1], at(k)[2]))
                 /\ at(k) \in coins
    IN IF ok(1) THEN <<at(1)>>
       ELSE IF ok(2) THEN <<at(2)>>
       ELSE IF ok(3) THEN <<at(3)>>
       ELSE <<>>

\* Plant.reproduce(): the positions of the new plants, in the order created.
\* roll is the outcome of the reproduction draw.
reproduce(p, w, roll, coins) ==
    IF ~eligible(p) THEN <<>>
    ELSE IF roll
         THEN column(p, w, -1, coins) \o column(p, w, 0, coins) \o column(p, w, 1, coins)
         ELSE <<>>

\* Every list reproduce() can return for p, over the draws it makes.
ReproduceResults(p, w) ==
    IF ~eligible(p) THEN {<<>>}
    ELSE {reproduce(p, w, roll, coins) :
            roll \in Rolls(p), coins \in SUBSET SoilNeighbours(p, w)}

-----------------------------------------------------------------------------
(* Simulation *)

Atmosphere0 == [co2 |-> ATMOSPHERE_START, o2 |-> ATMOSPHERE_START, water |-> 0]

Hist0 == [rained |-> 0, seeded |-> 0, gone |-> {}, updates |-> 0, calls |-> 0]

\* The cells in the order of the loops `for y ... for x ...`.
CellAt(w, k) == <<k % w.width, k \div w.width>>

\* The coordinates the draws for plant number i are taken from: one cell per
\* plant (the l.spread cells from cell number l.first on, taken in turn) and,
\* when the world has a lake, for the first l.wet plants the centre of the
\* lake.
SeedCoords(w, i, l) ==
    {CellAt(w, (l.first + (i % Min(l.spread, w.width * w.height)))
                  % (w.width * w.height))} \cup
    {c \in {<<w.width \div 2, w.height \div 2>>} :
        i < l.wet /\ ~IsSoil(get_cell(w, c[1], c[2]))}

\* Mutant of seed_attempt: no break after a plant is placed.
seed_attempt_no_break(w, ps, sd, id, x, y) ==
    LET cell == get_cell(w, x, y)
        hit == IsSoil(cell)
        last == sd.attempt + 1 >= SEED_TRIES
        sd1 == IF last
               THEN [i |-> sd.i + 1, attempt |-> 0]
               ELSE [i |-> sd.i, attempt |-> sd.attempt + 1]
    IN [plants |-> IF hit THEN Append(ps, Plant(<<x, y>>, id)) ELSE ps,
        seed |-> sd1,
        nextId |-> IF hit THEN id + 1 ELSE id,
        hit |-> hit,
        done |-> sd1.i >= NUM_PLANTS]

\* One pass of the inner loop of _seed_initial_plants with the draw (x, y):
\* [plants, seed, nextId, hit, done].
seed_attempt(w, ps, sd, id, x, y) ==
    LET cell == get_cell(w, x, y)
        hit == IsSoil(cell)
        last == sd.attempt + 1 >= SEED_TRIES
        sd1 == IF hit \/ last
               THEN [i |-> sd.i + 1, attempt |-> 0]
               ELSE [i |-> sd.i, attempt |-> sd.attempt + 1]
    IN [plants |-> IF hit THEN Append(ps, Plant(<<x, y>>, id)) ELSE ps,
        seed |-> sd1,
        nextId |-> IF hit THEN id + 1 ELSE id,
        hit |-> hit,
        done |-> sd1.i >= NUM_PLANTS]

is_daytime(hour) == DAY_START <= hour /\ hour <= DAY_END

\* The draw of the rain coin can come out true only when the condition before
\* it holds (the coin is not drawn otherwise).
can_rain(w, water) == ~is_daytime(w.hour) \/ water > 2 * Scale

rain_amount(water) == Min(F(2, 10), Frac(water, 1, 2))

\* Mutant of water_cell: what evaporates from a water cell is taken from it.
water_cell_draining(s, c, rain) ==
    LET cell == s.world.grid[c]
        day == is_daytime(s.world.hour)
    IN IF cell.type = "water"
       THEN IF day /\ cell.light > F(1, 2)
            THEN [s EXCEPT !.world.grid[c].water = @ - F(1, 100),
                           !.atmosphere.water = @ + F(1, 100)]
            ELSE s
       ELSE IF cell.type = "soil"
       THEN LET evaporation == Min(F(1, 100), Frac(cell.water, 5, 100))
                s1 == IF day /\ cell.light > F(7, 10)
                      THEN [s EXCEPT !.world.grid[c].water = @ - evaporation,
                                     !.atmosphere.water = @ + evaporation]
                      ELSE s
                amount == rain_amount(s1.atmosphere.water)
            IN IF can_rain(s1.world, s1.atmosphere.water) /\ rain
               THEN [s1 EXCEPT !.world.grid[c].water = Min(Scale, @ + amount),
                               !.atmosphere.water = Max(0, @ - amount),
                               !.hist.rained = IF amount > 0 THEN @ + 1 ELSE @]
               ELSE s1
       ELSE s

\* Mutant of water_cell: the rain is not taken from the atmospheric pool.
water_cell_free_rain(s, c, rain) ==
    LET cell == s.world.grid[c]
        day == is_daytime(s.world.hour)
    IN IF cell.type = "water"
       THEN IF day /\ cell.light > F(1, 2)
            THEN [s EXCEPT !.atmosphere.water = @ + F(1, 100)]
            ELSE s
       ELSE IF cell.type = "soil"
       THEN LET evaporation == Min(F(1, 100), Frac(cell.water, 5, 100))
                s1 == IF day /\ cell.light > F(7, 10)
                      THEN [s EXCEPT !.world.grid[c].water = @ - evaporation,
                                     !.atmosphere.water = @ + evaporation]
                      ELSE s
                amount == rain_amount(s1.atmosphere.water)
            IN IF can_rain(s1.world, s1.atmosphere.water) /\ rain
               THEN [s1 EXCEPT !.world.grid[c].water = Min(Scale, @ + amount),
                               !.hist.rained = IF amount > 0 THEN @ + 1 ELSE @]
               ELSE s1
       ELSE s

\* The body of the loops of _update_water_cycle for cell c, with the outcome
\* `rain` of random.random() < 0.05.  s is [world, atmosphere, hist, ...].
water_cell(s, c, rain) ==
    LET cell == s.world.grid[c]
        day == is_daytime(s.world.hour)
    IN IF cell.type = "water"
       THEN IF day /\ cell.light > F(1, 2)
            THEN [s EXCEPT !.atmosphere.water = @ + F(1, 100)]
            ELSE s
       ELSE IF cell.type = "soil"
       THEN LET evaporation == Min(F(1, 100), Frac(cell.water, 5, 100))
                s1 == IF day /\ cell.light > F(7, 10)
                      THEN [s EXCEPT !.world.grid[c].water = @ - evaporation,
                                     !.atmosphere.water = @ + evaporation]
                      ELSE s
                amount == rain_amount(s1.atmosphere.water)
            IN IF can_rain(s1.world, s1.atmosphere.water) /\ rain
               THEN [s1 EXCEPT !.world.grid[c].water = Min(Scale, @ + amount),
                               !.atmosphere.water = Max(0, @ - amount),
                               !.hist.rained = IF amount > 0 THEN @ + 1 ELSE @]
               ELSE s1
       ELSE s

\* The record of one pass of the loops over a soil cell c: the water of the
\* cell and of the atmosphere before (s) and after (s1) it.
logged(s, s1, c) ==
    IF s.world.grid[c].type = "soil"
    THEN [s1 EXCEPT !.water = Append(@,
              [c |-> c,
               cell0 |-> s.world.grid[c].water, atm0 |-> s.atmosphere.water,
               cell1 |-> s1.world.grid[c].water, atm1 |-> s1.atmosphere.water])]
    ELSE s1

\* The outcomes of the rain coin of cell c that the run's bounds allow.
RainDraws(s, c) ==
    {FALSE} \cup
    {b \in {TRUE} :
        /\ s.lim.rain
        /\ \E s1 \in {water_cell(s, c, TRUE)} :
              s1.hist.rained + s1.hist.seeded <= s.lim.events}

RECURSIVE WaterPass(_, _)
\* _update_water_cycle from cell number k on: the states it can leave, over
\* every outcome of the coins.
WaterPass(k, s) ==
    IF k >= s.world.width * s.world.height
    THEN {s}
    ELSE UNION {WaterPass(k + 1, s2) :
                  s2 \in {logged(s, s1, CellAt(s.world, k)) :
                            s1 \in {water_cell(s, CellAt(s.world, k), r) :
                                      r \in RainDraws(s, CellAt(s.world, k))}}}

update_water_cycle(s) == WaterPass(0, s)

\* The new Plant objects for the positions reproduce() returned.
NewPlants(positions, id) ==
    [k \in 1 .. Len(positions) |-> Plant(positions[k], id + k - 1)]

\* Mutant of plant_step: no `continue`, a plant whose grow() returned false is
\* asked to reproduce as well.
plant_step_no_continue(s, i, g, kids) ==
    [s EXCEPT !.world = g.world, !.plants[i] = g.plant,
              !.grown = Append(@, s.plants[i].id),
              !.gain = Append(@, g.plant.co2_absorbed - s.plants[i].co2_absorbed),
              !.asked = Append(@, s.plants[i].id),
              !.removed = IF g.alive THEN @ ELSE Append(@, i),
              !.new = @ \o NewPlants(kids, s.nextId),
              !.nextId = @ + Len(kids),
              !.hist.seeded = IF Len(kids) > 0 THEN @ + 1 ELSE @]

\* The body of the plant loop of update() for plants[i]: g is what its grow()
\* has left, `kids` the places of the seeds its reproduce() returns.  grown and
\* asked list the plants grow() and reproduce() were called on, in order, and
\* gain what each grow() call added to the plant's co2_absorbed.
plant_step(s, i, g, kids) ==
    IF ~g.alive
    THEN [s EXCEPT !.world = g.world, !.plants[i] = g.plant,
                   !.grown = Append(@, s.plants[i].id),
                   !.gain = Append(@, g.plant.co2_absorbed - s.plants[i].co2_absorbed),
                   !.removed = Append(@, i)]
    ELSE [s EXCEPT !.world = g.world, !.plants[i] = g.plant,
                   !.grown = Append(@, s.plants[i].id),
                   !.gain = Append(@, g.plant.co2_absorbed - s.plants[i].co2_absorbed),
                   !.asked = Append(@, s.plants[i].id),
                   !.new = @ \o NewPlants(kids, s.nextId),
                   !.nextId = @ + Len(kids),
                   !.hist.seeded = IF Len(kids) > 0 THEN @ + 1 ELSE @]

\* What reproduce() can return for a plant after its grow() has left g, within
\* the bounds.
KidsOf(s, g) ==
    IF ~g.alive THEN {<<>>}
    ELSE IF ~s.lim.seeds \/ s.hist.rained + s.hist.seeded >= s.lim.events
         THEN {<<>>}
         ELSE ReproduceResults(g.plant, g.world)

\* The states the body of the plant loop can leave for plants[i].
PlantSteps(s, i) ==
    UNION {{plant_step(s, i, g, kids) : kids \in KidsOf(s, g)} :
             g \in {grow(s.plants[i], s.world)}}

RECURSIVE PlantPass(_, _)
\* The plant loop of update() from plants[i] on: the states it can leave, over
\* every outcome of the draws.
PlantPass(i, s) ==
    IF i > Len(s.plants)
    THEN {s}
    ELSE UNION {PlantPass(i + 1, s1) : s1 \in PlantSteps(s, i)}

RECURSIVE returned(_, _, _)
\* What the removal loop adds to the resources of cell c from dead[k] on:
\* size * 0.5 for each dead plant at c.
returned(dead, c, k) ==
    IF k > Len(dead) THEN 0
    ELSE (IF dead[k].position = c THEN Frac(dead[k].size, 5, 10) ELSE 0)
         + returned(dead, c, k + 1)

\* Mutant of deposit: the resources are replaced by what is returned, not added to.
deposit_assign(w, dead) ==
    [w EXCEPT !.grid =
        [c \in DOMAIN w.grid |->
            IF \E k \in 1 .. Len(dead) : dead[k].position = c
            THEN [w.grid[c] EXCEPT !.resources = returned(dead, c, 1)]
            ELSE w.grid[c]]]

\* The resource part of the removal loop: each dead plant returns size * 0.5
\* to the cell at its position, when there is one.
deposit(w, dead) ==
    [w EXCEPT !.grid =
        [c \in DOMAIN w.grid |->
            [w.grid[c] EXCEPT !.resources = @ + returned(dead, c, 1)]]]

\* Mutant of live: no plant is taken out of the collection.
live_keep_all(ps, removed, k) == ps

RECURSIVE live(_, _, _)
\* self.plants.remove(plant) for the plants numbered in `removed`: what is
\* left of ps from ps[k] on, in order.
live(ps, removed, k) ==
    IF k > Len(ps) THEN <<>>
    ELSE (IF \E j \in 1 .. Len(removed) : removed[j] = k THEN <<>> ELSE <<ps[k]>>)
         \o live(ps, removed, k + 1)

RECURSIVE Sum(_, _, _)
Sum(ps, field, k) ==
    IF k > Len(ps) THEN 0
    ELSE (IF field = "co2" THEN ps[k].co2_absorbed ELSE ps[k].o2_produced)
         + Sum(ps, field, k + 1)

\* Mutant of update_atmosphere: the levels have no floor.
update_atmosphere_no_floor(ps, atm) ==
    [plants |-> [k \in 1 .. Len(ps) |->
                    [ps[k] EXCEPT !.co2_absorbed = 0, !.o2_produced = 0]],
     atmosphere |->
         [atm EXCEPT !.co2 = atm.co2 - Sum(ps, "co2", 1) + F(1, 10),
                     !.o2 = atm.o2 + Sum(ps, "o2", 1) - F(1, 10)]]

\* Mutant of update_atmosphere: the counters of the plants are not reset.
update_atmosphere_no_reset(ps, atm) ==
    [plants |-> ps,
     atmosphere |->
         [atm EXCEPT !.co2 = Max(ATMOSPHERE_FLOOR, atm.co2 - Sum(ps, "co2", 1) + F(1, 10)),
                     !.o2 = Max(ATMOSPHERE_FLOOR, atm.o2 + Sum(ps, "o2", 1) - F(1, 10))]]

\* _update_atmosphere on the live collection ps: [plants, atmosphere].
update_atmosphere(ps, atm) ==
    LET total_co2_absorbed == Sum(ps, "co2", 1)
        total_o2_produced == Sum(ps, "o2", 1)
    IN [plants |-> [k \in 1 .. Len(ps) |->
                       [ps[k] EXCEPT !.co2_absorbed = 0, !.o2_produced = 0]],
        atmosphere |->
            [atm EXCEPT !.co2 = Max(ATMOSPHERE_FLOOR, atm.co2 - total_co2_absorbed + F(1, 10)),
                        !.o2 = Max(ATMOSPHERE_FLOOR, atm.o2 + total_o2_produced - F(1, 10))]]

\* The removal pass and the addition pass of update().
remove_and_add(s) ==
    LET dead == [k \in 1 .. Len(s.removed) |-> s.plants[s.removed[k]]]
    IN [s EXCEPT !.world = deposit(s.world, dead),
                 !.plants = live(s.plants, s.removed, 1) \o s.new,
                 !.dead = dead,
                 !.hist.gone = @ \cup {dead[k].id : k \in 1 .. Len(dead)}]

\* The atmosphere pass that ends update().
finish(s) ==
    LET a == update_atmosphere(s.plants, s.atmosphere)
    IN [s EXCEPT !.plants = a.plants,
                 !.atmosphere = a.atmosphere,
                 !.hist.updates = @ + 1]

\* Every state one update() call can leave, over the outcomes of its draws.
UpdateResults(s) ==
    {finish(s3) :
       s3 \in {remove_and_add(s2) :
                 s2 \in UNION {PlantPass(1, [s1 EXCEPT !.removed = <<>>, !.new = <<>>]) :
                                 s1 \in UNION {update_water_cycle(s0) :
                                                 s0 \in {[s EXCEPT !.world = advance_time(s.world)]}}}}}

Sim ==
    [world |-> world, plants |-> plants, atmosphere |-> atmosphere,
     nextId |-> nextId, hist |-> hist, lim |-> lim,
     removed |-> <<>>, new |-> <<>>, dead |-> <<>>,
     grown |-> <<>>, gain |-> <<>>, asked |-> <<>>, water |-> <<>>]

get_stats(s) ==
    [day |-> s.world.day, hour |-> s.world.hour, plant_count |-> Len(s.plants),
     co2_level |-> s.atmosphere.co2, o2_level |-> s.atmosphere.o2,
     water_in_atmosphere |-> s.atmosphere.water]

-----------------------------------------------------------------------------
(* Actions of a Simulation *)

MainOff == [pc |-> "off", days |-> 0, out |-> <<>>]

\* The state at the start of _seed_initial_plants in Simulation(width, height).
Construct(width, height) ==
    /\ world = World(width, height)
    /\ plants = <<>>
    /\ atmosphere = Atmosphere0
    /\ nextId = 1
    /\ pc = "seed"
    /\ seed = [i |-> 0, attempt |-> 0]
    /\ ret = [op |-> "init"]
    /\ hist = Hist0

SeedAttempt ==
    /\ pc = "seed"
    /\ \E c \in SeedCoords(world, seed.i, lim) :
          LET r == seed_attempt(world, plants, seed, nextId, c[1], c[2])
          IN /\ plants' = r.plants
             /\ seed' = r.seed
             /\ nextId' = r.nextId
             /\ pc' = IF r.done THEN "ready" ELSE "seed"
             /\ ret' = [op |-> "seed", hit |-> r.hit]
    /\ UNCHANGED <<world, atmosphere, hist, lim, main>>

\* What update() changes, for one outcome s of UpdateResults.
Updated(s) ==
    /\ world' = s.world
    /\ plants' = s.plants
    /\ atmosphere' = s.atmosphere
    /\ nextId' = s.nextId
    /\ hist' = s.hist
    /\ ret' = [op |-> "update", removed |-> s.dead, new |-> s.new,
                grown |-> s.grown, gain |-> s.gain, asked |-> s.asked,
                water |-> s.water]

Update ==
    /\ pc = "ready"
    /\ main.pc = "off"
    /\ world.time < lim.time
    /\ \E s \in UpdateResults(Sim) : Updated(s)
    /\ UNCHANGED <<pc, seed, lim, main>>

GetStats ==
    /\ pc = "ready"
    /\ main.pc = "off"
    /\ ret.op # "get_stats"
    /\ ret' = [op |-> "get_stats", stats |-> get_stats(Sim)]
    /\ UNCHANGED <<world, plants, atmosphere, nextId, pc, seed, hist, lim, main>>

-----------------------------------------------------------------------------
(* The simulation of a small world *)

SimDims == {<<3, 3>>}

Init ==
    /\ \E d \in SimDims : Construct(d[1], d[2])
    /\ lim = [time |-> MaxTime, events |-> MaxEvents, seeds |-> TRUE,
             spread |-> NUM_PLANTS, first |-> 0, wet |-> NUM_PLANTS, rain |-> TRUE]
    /\ main = MainOff

Next == SeedAttempt \/ Update \/ GetStats

Spec == Init /\ [][Next]_vars

-----------------------------------------------------------------------------
(* The whole life of the seeded plants: a world with a cell no plant is      *)
(* seeded on, run until the plants have died; no reproduce() call returns   *)
(* a seed.                                                                  *)

LifeDims == {<<4, 3>>}

InitLife ==
    /\ \E d \in LifeDims : Construct(d[1], d[2])
    /\ lim = [time |-> LifeTime, events |-> MaxEvents, seeds |-> FALSE,
             spread |-> LifeSpread, first |-> 0, wet |-> NUM_PLANTS, rain |-> TRUE]
    /\ main = MainOff

NextLife == SeedAttempt \/ Update

SpecLife == InitLife /\ [][NextLife]_vars

-----------------------------------------------------------------------------
(* Generations: a small world where the seeded plants bear offspring and    *)
(* die, and the offspring live on.                                          *)

GenDims == {<<2, 2>>}

InitGen ==
    /\ \E d \in GenDims : Construct(d[1], d[2])
    /\ lim = [time |-> LifeTime, events |-> MaxEvents, seeds |-> TRUE,
             spread |-> NUM_PLANTS, first |-> 0, wet |-> NUM_PLANTS, rain |-> TRUE]
    /\ main = MainOff

NextGen == SeedAttempt \/ Update

SpecGen == InitGen /\ [][NextGen]_vars

-----------------------------------------------------------------------------
(* Rains: a world whose plants all stand on one cell, run into the second   *)
(* night, with more than one rain.                                          *)

RainDims == {<<3, 3>>}

InitRain ==
    /\ \E d \in RainDims : Construct(d[1], d[2])
    /\ lim = [time |-> RainTime, events |-> RainEvents, seeds |-> FALSE,
             spread |-> 1, first |-> 0, wet |-> NUM_PLANTS, rain |-> TRUE]
    /\ main = MainOff

NextRain == SeedAttempt \/ Update

SpecRain == InitRain /\ [][NextRain]_vars

-----------------------------------------------------------------------------
(* A world with a lake: the plants stand on the row above the lake, from    *)
(* the cells next to it to the edge of the grid.  In one run it rains, in   *)
(* the other the plants bear offspring.                                     *)

LakeDims == {<<8, 8>>}

InitLake ==
    /\ \E d \in LakeDims : Construct(d[1], d[2])
    /\ lim = [time |-> LakeTime, events |-> MaxEvents, seeds |-> FALSE,
             spread |-> LakeSpread, first |-> LakeFirst, wet |-> LakeWet, rain |-> TRUE]
    /\ main = MainOff

NextLake == SeedAttempt \/ Update

SpecLake == InitLake /\ [][NextLake]_vars

InitShore ==
    /\ \E d \in LakeDims : Construct(d[1], d[2])
    /\ lim = [time |-> ShoreTime, events |-> MaxEvents, seeds |-> TRUE,
             spread |-> LakeSpread, first |-> LakeFirst, wet |-> LakeWet, rain |-> FALSE]
    /\ main = MainOff

NextShore == SeedAttempt \/ Update

SpecShore == InitShore /\ [][NextShore]_vars

-----------------------------------------------------------------------------
(* Construction: worlds with and without a lake, every outcome of the       *)
(* seeding draws over the corner cell and the lake, and get_stats().        *)

SeedDims == {<<1, 1>>, <<5, 5>>, <<8, 8>>, <<9, 8>>}

InitSeed ==
    /\ \E d \in SeedDims : Construct(d[1], d[2])
    /\ lim = [time |-> 0, events |-> 0, seeds |-> FALSE,
             spread |-> 1, first |-> 0, wet |-> NUM_PLANTS, rain |-> TRUE]
    /\ main = MainOff

NextSeed == SeedAttempt \/ GetStats

SpecSeed == InitSeed /\ [][NextSeed]_vars

-----------------------------------------------------------------------------
(* World alone: World(width, height) for every size up to MaxDim, and       *)
(* advance_time().                                                          *)

InitWorld ==
    /\ \E w \in 1 .. MaxDim, h \in 1 .. MaxDim : world = World(w, h)
    /\ plants = <<>>
    /\ atmosphere = Atmosphere0
    /\ nextId = 1
    /\ pc = "world"
    /\ seed = [i |-> 0, attempt |-> 0]
    /\ ret = [op |-> "init"]
    /\ hist = Hist0
    /\ lim = [time |-> WorldTime, events |-> 0, seeds |-> FALSE,
             spread |-> 1, first |-> 0, wet |-> NUM_PLANTS, rain |-> TRUE]
    /\ main = MainOff

AdvanceTime ==
    /\ pc = "world"
    /\ world.time < lim.time
    /\ world' = advance_time(world)
    /\ ret' = [op |-> "advance_time"]
    /\ UNCHANGED <<plants, atmosphere, nextId, pc, seed, hist, lim, main>>

NextWorld == AdvanceTime

SpecWorld == InitWorld /\ [][NextWorld]_vars

-----------------------------------------------------------------------------
(* Plant alone: one plant in a 3 x 3 world, its fields, its position, the   *)
(* light and the water of its cell drawn from small sets; grow() and        *)
(* reproduce() are called on it.                                            *)

PlantPositions == {<<1, 1>>, <<0, 0>>, <<3, 1>>}
PlantAges == {0, 29, 30, 100}
PlantSizes == {F(1, 10), F(3, 10) - 1, F(3, 10), F(995, 1000)}
PlantHealths == {100 * Scale, 2 * Scale, F(5, 2)}
PlantHours == {0, 6, 12}
PlantWaters == {0, SOIL_WATER, Scale}

\* The world a test builds: World(3, 3), lit for the hour, with the water of
\* the cell at `position` set.
PlantWorld(position, hr, water) ==
    LET w == update_lighting(World(3, 3), hr)
    IN IF get_cell(w, position[1], position[2]) # None
       THEN [w EXCEPT !.grid[position].water = water]
       ELSE w

InitPlant ==
    /\ \E position \in PlantPositions, age \in PlantAges, size \in PlantSizes,
          health \in PlantHealths, hr \in PlantHours, water \in PlantWaters :
          /\ world = PlantWorld(position, hr, water)
          /\ plants = <<[Plant(position, 1) EXCEPT !.age = age, !.size = size,
                                                   !.health = health]>>
    /\ atmosphere = Atmosphere0
    /\ nextId = 2
    /\ pc = "unit"
    /\ seed = [i |-> 0, attempt |-> 0]
    /\ ret = [op |-> "init"]
    /\ hist = Hist0
    /\ lim = [time |-> 0, events |-> 0, seeds |-> TRUE,
             spread |-> 1, first |-> 0, wet |-> NUM_PLANTS, rain |-> TRUE]
    /\ main = MainOff

GrowCall ==
    /\ pc = "unit"
    /\ hist.calls < MaxCalls
    /\ LET r == grow(plants[1], world)
       IN /\ plants' = <<r.plant>>
          /\ world' = r.world
          /\ ret' = [op |-> "grow", alive |-> r.alive]
    /\ hist' = [hist EXCEPT !.calls = @ + 1]
    /\ UNCHANGED <<atmosphere, nextId, pc, seed, lim, main>>

ReproduceCall ==
    /\ pc = "unit"
    /\ hist.calls < MaxCalls
    /\ \E kids \in ReproduceResults(plants[1], world) :
          /\ ret' = [op |-> "reproduce", result |-> NewPlants(kids, nextId)]
          /\ nextId' = nextId + Len(kids)
    /\ hist' = [hist EXCEPT !.calls = @ + 1]
    /\ UNCHANGED <<world, plants, atmosphere, pc, seed, lim, main>>

NextPlant == GrowCall \/ ReproduceCall

SpecPlant == InitPlant /\ [][NextPlant]_vars

-----------------------------------------------------------------------------
(* main(): the run loop, not interrupted *)

MainDims == {<<3, 3>>}

\* Mutant of loop_test: the loop runs through the target day.
loop_test_through(day, days) == day <= days

\* The test of `while sim.world.day < args.days`.
loop_test(day, days) == day < days

InitMain ==
    /\ \E d \in MainDims : Construct(d[1], d[2])
    /\ lim = [time |-> 0, events |-> MaxEvents, seeds |-> TRUE,
             spread |-> NUM_PLANTS, first |-> 0, wet |-> NUM_PLANTS, rain |-> TRUE]
    /\ \E days \in -1 .. MaxDays : main = [pc |-> "test", days |-> days, out |-> <<>>]

\* The loop test passes: vis.clear_screen(); print(vis.render()).
MainRender ==
    /\ pc = "ready"
    /\ main.pc = "test"
    /\ loop_test(world.day, main.days)
    /\ main' = [main EXCEPT !.pc = "update", !.out = Append(@, "render")]
    /\ UNCHANGED <<world, plants, atmosphere, nextId, pc, seed, ret, hist, lim>>

\* sim.update()
MainUpdate ==
    /\ main.pc = "update"
    /\ \E s \in UpdateResults(Sim) : Updated(s)
    /\ main' = [main EXCEPT !.pc = "sleep", !.out = Append(@, "update")]
    /\ UNCHANGED <<pc, seed, lim>>

\* time.sleep(args.speed)
MainSleep ==
    /\ main.pc = "sleep"
    /\ main' = [main EXCEPT !.pc = "test"]
    /\ UNCHANGED <<world, plants, atmosphere, nextId, pc, seed, ret, hist, lim>>

\* The loop test fails: the final render and "Simulation complete!".
MainFinal ==
    /\ pc = "ready"
    /\ main.pc = "test"
    /\ ~loop_test(world.day, main.days)
    /\ main' = [main EXCEPT !.pc = "done", !.out = @ \o <<"render", "complete">>]
    /\ UNCHANGED <<world, plants, atmosphere, nextId, pc, seed, ret, hist, lim>>

NextMain == SeedAttempt \/ MainRender \/ MainUpdate \/ MainSleep \/ MainFinal

\* The process runs until main() returns: nothing but an interrupt stops it.
SpecMain == InitMain /\ [][NextMain]_vars /\ WF_vars(NextMain)

-----------------------------------------------------------------------------
(* main(): the run loop with the user's interrupt (KeyboardInterrupt)       *)

\* The states update() can have reached when an interrupt stops it: the ends
\* of advance_time(), of the water cycle, of the plant loop and of the removal
\* and addition passes.
UpdatePartials(s) ==
    UNION {{s0} \cup update_water_cycle(s0)
              \cup UNION {LET S2 == PlantPass(1, [s1 EXCEPT !.removed = <<>>, !.new = <<>>])
                          IN S2 \cup {remove_and_add(s2) : s2 \in S2} :
                            s1 \in update_water_cycle(s0)} :
             s0 \in {[s EXCEPT !.world = advance_time(s.world)]}}

\* The handler `except KeyboardInterrupt`: it prints the termination message.
on_interrupt(out) == Append(out, "terminated")

\* The interrupt arrives before the statement main() is at: before the render
\* of the loop or the final render, before update(), or during the sleep.
MainInterrupt ==
    /\ pc = "ready"
    /\ main.pc \in {"test", "update", "sleep"}
    /\ main' = [main EXCEPT !.pc = "interrupted", !.out = on_interrupt(@)]
    /\ UNCHANGED <<world, plants, atmosphere, nextId, pc, seed, ret, hist, lim>>

\* The interrupt arrives inside the final block, after the final render and
\* before the completion message.
MainInterruptFinal ==
    /\ pc = "ready"
    /\ main.pc = "test"
    /\ ~loop_test(world.day, main.days)
    /\ main' = [main EXCEPT !.pc = "interrupted",
                            !.out = on_interrupt(Append(@, "render"))]
    /\ UNCHANGED <<world, plants, atmosphere, nextId, pc, seed, ret, hist, lim>>

\* The interrupt arrives inside sim.update(), which has run in part.
MainInterruptUpdate ==
    /\ main.pc = "update"
    /\ \E s \in UpdatePartials(Sim) :
          /\ world' = s.world
          /\ plants' = s.plants
          /\ atmosphere' = s.atmosphere
          /\ nextId' = s.nextId
          /\ hist' = s.hist
    /\ ret' = [op |-> "interrupted"]
    /\ main' = [main EXCEPT !.pc = "interrupted",
                            !.out = on_interrupt(Append(@, "update"))]
    /\ UNCHANGED <<pc, seed, lim>>

NextInterrupt ==
    \/ SeedAttempt \/ MainRender \/ MainUpdate \/ MainSleep \/ MainFinal
    \/ MainInterrupt \/ MainInterruptFinal \/ MainInterruptUpdate

SpecInterrupt == InitMain /\ [][NextInterrupt]_vars

-----------------------------------------------------------------------------
(* Claims *)

Ids(ps) == {ps[k].id : k \in 1 .. Len(ps)}

\* C1: in every reachable state hour = time mod 24, 0 <= hour <= 23 and
\* day = time div 24; each update() increases time by exactly 1, day never
\* decreases and increases by exactly 1 in precisely the calls in which hour
\* wraps to 0.
C1_Clock ==
    /\ [](/\ world.hour = world.time % 24
          /\ world.hour \in 0 .. 23
          /\ world.day = world.time \div 24)
    /\ [][hist'.updates # hist.updates =>
            /\ world'.time = world.time + 1
            /\ world'.day \in {world.day, world.day + 1}
            /\ (world'.day = world.day + 1) <=> (world'.hour = 0)]_vars

\* C1's case: the 48th update() has wrapped the hour to 0 a second time.
C1_Witness == hist.updates = 48 /\ world.hour = 0 /\ world.day = 2

C3_Removal ==
    /\ [](\A k \in 1 .. Len(plants) :
             plants[k].health > 0 /\ plants[k].id \notin hist.gone)
    /\ [][hist'.updates # hist.updates =>
            LET dead == ret'.removed
                share(c, k) == IF dead[k].position = c THEN (dead[k].size * 5) \div 10 ELSE 0
                shares(c) == [k \in 1 .. Len(dead) |-> share(c, k)]
                total[k \in 0 .. Len(dead), c \in DOMAIN world.grid] ==
                    IF k = 0 THEN 0 ELSE total[k - 1, c] + shares(c)[k]
            IN /\ \A k \in 1 .. Len(dead) :
                     /\ dead[k].health <= 0
                     /\ dead[k].size > 0
                     /\ dead[k].id \in Ids(plants)
                     /\ dead[k].id \notin Ids(plants')
                     /\ dead[k].id \in hist'.gone
               /\ \A c \in DOMAIN world.grid :
                     /\ world'.grid[c].resources =
                            world.grid[c].resources + total[Len(dead), c]
                     /\ (\E k \in 1 .. Len(dead) : dead[k].position = c) =>
                            world'.grid[c].resources > world.grid[c].resources]_vars

\* C3's case: an update() has removed two plants of one cell, whose resources
\* grew, and a cell where no plant died kept its resources.
C3_Witness ==
    /\ ret.op = "update"
    /\ \E i, j \in 1 .. Len(ret.removed) :
          /\ i # j
          /\ ret.removed[i].position = ret.removed[j].position
          /\ world.grid[ret.removed[i].position].resources > Scale
    /\ \E c \in DOMAIN world.grid : world.grid[c].resources = Scale

\* C4: reproduce() returns at most one new Plant per call.
C4_AtMostOne == ret.op = "reproduce" => Len(ret.result) <= 1

\* C5: a reproduce() call made while age < 30 or size < 0.3 returns the empty
\* list and changes neither the plant nor any cell.
C5_TooYoung ==
    [][(/\ ret'.op = "reproduce"
        /\ hist'.calls # hist.calls
        /\ (plants[1].age < 30 \/ plants[1].size < (3 * Scale) \div 10)) =>
            /\ ret'.result = <<>>
            /\ plants' = plants
            /\ world' = world]_vars

\* C5's case: reproduce() was called on a healthy plant with soil neighbours
\* that is old enough but too small, and on one big enough but too young.
C5_Witness ==
    /\ ret.op = "reproduce"
    /\ ret.result = <<>>
    /\ plants[1].health = 100 * Scale
    /\ SoilNeighbours(plants[1], world) # {}
    /\ \/ plants[1].age >= 30 /\ plants[1].size < (3 * Scale) \div 10
       \/ plants[1].age < 30 /\ plants[1].size >= (3 * Scale) \div 10

\* C6: in every reachable state atmosphere co2 >= 50 and o2 >= 50.
C6_Floors ==
    /\ atmosphere.co2 >= 50 * Scale
    /\ atmosphere.o2 >= 50 * Scale

\* C6's case: the plants have absorbed co2 down to the floor.
C6_Witness ==
    /\ ret.op = "update"
    /\ Len(plants) >= NUM_PLANTS
    /\ atmosphere.co2 = 50 * Scale
    /\ atmosphere.o2 > 100 * Scale

\* C7: for a plant on an in-bounds soil cell with light L and water W, grow()
\* computes g = 0.2 * min(L, W); if g > 0, age grows by 1, size becomes
\* min(1.0, size + 0.1 g), both gas counters grow by g, the cell's water
\* becomes max(0, W - 0.05 g) and health is as it was; if g = 0, health drops
\* by 2 and the rest is as it was; then health drops by 0.5 iff the new age
\* is above 100; the call returns true iff health > 0.  L = W = 1.0 on a fresh
\* plant: age 1, size 0.12, water 0.99, true.
C7_Grow ==
    [][(/\ ret'.op = "grow"
        /\ hist'.calls # hist.calls
        /\ IsSoil(get_cell(world, plants[1].position[1], plants[1].position[2]))) =>
            LET p == plants[1]
                q == plants'[1]
                L == world.grid[p.position].light
                W == world.grid[p.position].water
                W2 == world'.grid[p.position].water
                m == IF L <= W THEN L ELSE W
                g == IF m > 0 /\ (2 * m) \div 10 = 0 THEN 1 ELSE (2 * m) \div 10
                old == IF q.age > 100 THEN Scale \div 2 ELSE 0
            IN /\ g > 0 =>
                    /\ q.age = p.age + 1
                    /\ q.size = (IF p.size + g \div 10 <= Scale
                                 THEN p.size + g \div 10 ELSE Scale)
                    /\ q.co2_absorbed = p.co2_absorbed + g
                    /\ q.o2_produced = p.o2_produced + g
                    /\ W2 = (IF W - (5 * g) \div 100 >= 0 THEN W - (5 * g) \div 100 ELSE 0)
                    /\ q.health = p.health - old
               /\ g = 0 =>
                    /\ q.age = p.age
                    /\ q.size = p.size
                    /\ q.co2_absorbed = p.co2_absorbed
                    /\ q.o2_produced = p.o2_produced
                    /\ W2 = W
                    /\ q.health = p.health - 2 * Scale - old
               /\ ret'.alive <=> (q.health > 0)
               /\ (L = Scale /\ W = Scale /\ p.age = 0 /\ p.size = Scale \div 10) =>
                    /\ g = 200000
                    /\ q.age = 1
                    /\ q.size = 120000
                    /\ W2 = W - 10000
                    /\ (p.health = 100 * Scale => ret'.alive)]_vars

\* C7's case: the instance (a fresh plant, L = W = 1.0) has grown once, and
\* so has a plant that the call made older than 100.
C7_Witness ==
    /\ ret.op = "grow"
    /\ \/ /\ plants[1].age = 1
          /\ plants[1].size = 120000
          /\ world.grid[plants[1].position].water = 990000
          /\ ret.alive
       \/ /\ plants[1].age = 101
          /\ plants[1].health = 2 * Scale - Scale \div 2

\* The cells of the lake of radius r (times den) around the centre of world:
\* those at a distance below r / den.
InDisc(c, r, den) ==
    LET dx == c[1] - world.width \div 2
        dy == c[2] - world.height \div 2
    IN den * den * (dx * dx + dy * dy) < r * r

Constructed(c, lake) ==
    IF lake
    THEN world.grid[c].type = "water" /\ world.grid[c].water = Scale
    ELSE /\ world.grid[c].type = "soil"
         /\ world.grid[c].water = (7 * Scale) \div 10
         /\ world.grid[c].resources = Scale
         /\ world.grid[c].light = 0

ShortSide == IF world.width <= world.height THEN world.width ELSE world.height

\* C8 as stated: after World(width, height), time = hour = day = 0 and a cell
\* is a water cell with water 1.0 exactly when it lies in the disc of radius
\* min(width, height) / 8 around (width // 2, height // 2), and is otherwise a
\* soil cell with water 0.7, resources 1.0, light 0; a world whose radius is
\* below one cell has no water cell.
C8_AsStated ==
    world.time = 0 =>
        /\ world.hour = 0 /\ world.day = 0
        /\ \A c \in DOMAIN world.grid : Constructed(c, InDisc(c, ShortSide, 8))
        /\ ShortSide < 8 => \A c \in DOMAIN world.grid : world.grid[c].type # "water"

\* C8 as amended: the radius is min(width, height) // 8, the integer part, and
\* the disc is open; a world with min(width, height) < 8 has no water cell.
C8_Lake ==
    world.time = 0 =>
        /\ world.hour = 0 /\ world.day = 0
        /\ \A c \in DOMAIN world.grid : Constructed(c, InDisc(c, ShortSide \div 8, 1))
        /\ ShortSide < 8 => \A c \in DOMAIN world.grid : world.grid[c].type # "water"

\* C8's case: a world just built that has a lake of more than one cell and soil
\* around it.
C8_Witness ==
    /\ world.time = 0
    /\ ShortSide \div 8 = 2
    /\ Cardinality({c \in DOMAIN world.grid : world.grid[c].type = "water"}) > 1
    /\ \E c \in DOMAIN world.grid : world.grid[c].type = "soil"

\* C9: right after Simulation(width, height), get_stats() reports day 0, hour
\* 0, co2 100.0, o2 100.0, no water in the atmosphere and 0 <= plant_count <=
\* 20; the seeding passes to the next plant without placing one only when the
\* 10th attempt for it has hit a cell that is not soil; get_stats() changes no
\* simulation state.
C9_Construction ==
    /\ [](ret.op = "get_stats" =>
            /\ ret.stats.day = 0
            /\ ret.stats.hour = 0
            /\ ret.stats.co2_level = 100 * Scale
            /\ ret.stats.o2_level = 100 * Scale
            /\ ret.stats.water_in_atmosphere = 0
            /\ ret.stats.plant_count \in 0 .. 20
            /\ ret.stats.plant_count = Len(plants))
    /\ [][(pc = "seed" /\ seed' # seed) =>
            /\ ret'.hit => Len(plants') = Len(plants) + 1 /\ seed'.i = seed.i + 1
            /\ ~ret'.hit => plants' = plants
            /\ (seed'.i # seed.i /\ ~ret'.hit) => seed.attempt = 9
            /\ (seed'.i = seed.i) => seed'.attempt = seed.attempt + 1
            /\ seed'.i \in {seed.i, seed.i + 1}]_vars
    /\ [][ret'.op = "get_stats" =>
            world' = world /\ plants' = plants /\ atmosphere' = atmosphere]_vars

\* C9's case: get_stats() after a construction that left plants out.
C9_Witness ==
    /\ ret.op = "get_stats"
    /\ ret.stats.plant_count > 0
    /\ ret.stats.plant_count < 20

\* C10: with no interrupt, main() ends for every day count D: it has called
\* update() exactly 24 * D times (none when D <= 0), no update() was called in
\* a state with world.day >= D, and the output ends with the final render and
\* then the completion message.
C10_Run ==
    /\ [](main.pc = "done" =>
            LET D == IF main.days > 0 THEN main.days ELSE 0
                n == Len(main.out)
            IN /\ hist.updates = 24 * D
               /\ world.day = D
               /\ world.day >= main.days
               /\ n >= 2
               /\ main.out[n - 1] = "render"
               /\ main.out[n] = "complete"
               /\ Cardinality({k \in 1 .. n : main.out[k] = "update"}) = 24 * D)
    /\ [][hist'.updates # hist.updates => world.day < main.days]_vars
    /\ <>(main.pc = "done")

\* C10's case: main() has ended a run of two days.
C10_Witness == main.pc = "done" /\ main.days = 2 /\ hist.updates = 48

\* C11: every interrupted run ends with a render after the last update()
\* executed, followed by the termination message.
C11_FinalRender ==
    main.pc = "interrupted" =>
        LET n == Len(main.out)
        IN /\ n >= 2
           /\ main.out[n] = "terminated"
           /\ main.out[n - 1] = "render"

\* The ids of a sequence of plants, in order.
IdSeq(ps) == [k \in 1 .. Len(ps) |-> ps[k].id]

\* C12: in one update(), grow() is called exactly once on every plant of the
\* collection, in order; reproduce() is called on exactly those whose grow()
\* returned true; the offspring are appended after the survivors, were never
\* grown or asked to reproduce in this update, and are fresh (age 0, size 0.1,
\* health 100) when update() returns.
C12_Passes ==
    [][hist'.updates # hist.updates =>
        LET dead == {ret'.removed[k].id : k \in 1 .. Len(ret'.removed)}
            kids == {ret'.new[k].id : k \in 1 .. Len(ret'.new)}
            n == Len(plants') - Len(ret'.new)
        IN /\ ret'.grown = IdSeq(plants)
           /\ ret'.asked = SelectSeq(IdSeq(plants), LAMBDA id : id \notin dead)
           /\ kids \cap Ids(plants) = {}
           /\ n >= 0
           /\ SubSeq(IdSeq(plants'), 1, n) = ret'.asked
           /\ SubSeq(IdSeq(plants'), n + 1, Len(plants')) = IdSeq(ret'.new)
           /\ \A k \in n + 1 .. Len(plants') :
                 /\ plants'[k].age = 0
                 /\ plants'[k].size = Scale \div 10
                 /\ plants'[k].health = 100 * Scale
                 /\ plants'[k].co2_absorbed = 0]_vars

\* C12's case: an update() in which plants died and were not asked to
\* reproduce, while offspring of an earlier update() went through the passes
\* and lived on.
C12_Witness ==
    /\ ret.op = "update"
    /\ ret.removed # <<>>
    /\ Len(ret.asked) < Len(ret.grown)
    /\ \E k \in 1 .. Len(plants) :
          /\ plants[k].id > 20
          /\ plants[k].age > 0
          /\ plants[k].id \in {ret.asked[j] : j \in 1 .. Len(ret.asked)}

\* C13: each update() sets co2 = max(50, co2 - S + 0.1) and o2 =
\* max(50, o2 + S - 0.1), S being the sum of what the grow() calls of this
\* update() added to the counters of the plants that are in the collection
\* when it returns; every plant of the collection then has both counters 0.
C13_Atmosphere ==
    /\ [](\A k \in 1 .. Len(plants) :
             plants[k].co2_absorbed = 0 /\ plants[k].o2_produced = 0)
    /\ [][hist'.updates # hist.updates =>
            LET counted(k) == IF ret'.grown[k] \in Ids(plants') THEN ret'.gain[k] ELSE 0
                acc[k \in 0 .. Len(ret'.grown)] ==
                    IF k = 0 THEN 0 ELSE acc[k - 1] + counted(k)
                S == acc[Len(ret'.grown)]
                floor(v) == IF v >= 50 * Scale THEN v ELSE 50 * Scale
            IN /\ atmosphere'.co2 = floor(atmosphere.co2 - S + Scale \div 10)
               /\ atmosphere'.o2 = floor(atmosphere.o2 + S - Scale \div 10)]_vars

\* C13's case: an update() in which the plants gained gas, offspring were
\* added, and co2 came out above its floor.
C13_Witness ==
    /\ ret.op = "update"
    /\ ret.new # <<>>
    /\ \E k \in 1 .. Len(ret.gain) : ret.gain[k] > 0
    /\ atmosphere.co2 > 50 * Scale
    /\ atmosphere.co2 < 100 * Scale
    /\ atmosphere.o2 > 100 * Scale

\* C14 as stated: in every pass of the water cycle over a soil cell, the
\* water of the cell plus the water of the atmosphere is unchanged, and the
\* water of the atmosphere is not negative.
C14_AsStated ==
    ret.op = "update" =>
        \A k \in 1 .. Len(ret.water) :
            /\ ret.water[k].cell1 + ret.water[k].atm1 =
                   ret.water[k].cell0 + ret.water[k].atm0
            /\ ret.water[k].atm1 >= 0

\* C14 as amended: the sum is unchanged unless the rain fills the cell to 1.0,
\* where what the rain brought above 1.0 is lost; the sum never grows and the
\* water of the atmosphere is not negative.
C14_Water ==
    ret.op = "update" =>
        \A k \in 1 .. Len(ret.water) :
            LET st == ret.water[k]
            IN /\ st.atm1 >= 0
               /\ st.cell1 >= 0 /\ st.cell1 <= Scale
               /\ \/ st.cell1 + st.atm1 = st.cell0 + st.atm0
                  \/ /\ st.cell1 = Scale
                     /\ st.atm1 < st.atm0
                     /\ st.cell0 + st.atm0 - st.atm1 > Scale

\* C14's case: in one update() a rain has filled a cell to 1.0 and lost
\* water, and evaporation has moved water from a cell to the atmosphere.
C14_Witness ==
    /\ ret.op = "update"
    /\ \E k \in 1 .. Len(ret.water) :
          /\ ret.water[k].cell1 = Scale
          /\ ret.water[k].cell1 + ret.water[k].atm1 <
                 ret.water[k].cell0 + ret.water[k].atm0
    /\ hist.rained >= 2
    /\ atmosphere.water > 0

\* The plant of ps with the id given.
ById(ps, id) == ps[CHOOSE k \in 1 .. Len(ps) : ps[k].id = id]

Lake == {c \in DOMAIN world.grid : world.grid[c].type = "water"}

\* C16: no update() changes the type of a cell; every water cell has water
\* 1.0 before and after every update(), rain or not; in an update() at a
\* daytime hour with light above 0.5 each water cell adds 0.01 to the water
\* of the atmosphere, beyond what the soil cells exchanged with it, and
\* nothing otherwise.
C16_Lake ==
    /\ [](\A c \in Lake : world.grid[c].water = Scale)
    /\ [][hist'.updates # hist.updates =>
            LET moved[k \in 0 .. Len(ret'.water)] ==
                    IF k = 0 THEN 0
                    ELSE moved[k - 1] + ret'.water[k].atm1 - ret'.water[k].atm0
                lit(c) == /\ world'.hour >= 6 /\ world'.hour <= 18
                          /\ 2 * world'.grid[c].light > Scale
                steam == Cardinality({c \in Lake : lit(c)}) * (Scale \div 100)
            IN /\ \A c \in DOMAIN world.grid :
                     /\ world'.grid[c].type = world.grid[c].type
                     /\ c \in Lake => world'.grid[c].water = world.grid[c].water
               /\ \A k \in 1 .. Len(ret'.water) : ret'.water[k].c \notin Lake
               /\ atmosphere'.water =
                      atmosphere.water + moved[Len(ret'.water)] + steam]_vars

\* C16's case: after a night with rain, an update() at hour 7 in which the
\* lake has evaporated, with a plant that has grown on the cell next to it.
C16_Witness ==
    /\ ret.op = "update"
    /\ Lake # {}
    /\ hist.rained > 0
    /\ world.hour = 7
    /\ world.day = 1
    /\ \E k \in 1 .. Len(plants) :
          /\ plants[k].age > 0
          /\ \E c \in Lake : /\ plants[k].position[1] = c[1]
                             /\ plants[k].position[2] = c[2] - 1

\* C17: every plant of the collection stands on a cell of the grid that is a
\* soil cell; a plant keeps its position from one update() to the next; and no
\* grow() call of an update() takes the 10 health of a plant without soil
\* (a call takes 0, 0.5, 2 or 2.5).
C17_OnSoil ==
    /\ [](\A k \in 1 .. Len(plants) :
             /\ plants[k].position \in DOMAIN world.grid
             /\ plants[k].position[1] \in 0 .. world.width - 1
             /\ plants[k].position[2] \in 0 .. world.height - 1
             /\ world.grid[plants[k].position].type = "soil")
    /\ [][hist'.updates # hist.updates =>
            /\ \A id \in Ids(plants) \cap Ids(plants') :
                  /\ ById(plants', id).position = ById(plants, id).position
                  /\ ById(plants, id).health - ById(plants', id).health
                        \in {0, Scale \div 2, 2 * Scale, 2 * Scale + Scale \div 2}
            /\ \A k \in 1 .. Len(ret'.removed) :
                  ById(plants, ret'.removed[k].id).health - ret'.removed[k].health
                        \in {0, Scale \div 2, 2 * Scale, 2 * Scale + Scale \div 2}]_vars

\* C17's case: a seeding draw has fallen on the lake, a plant stands at the
\* edge of the grid, and a plant next to the lake has borne offspring on both
\* sides of the lake.
C17_Witness ==
    /\ ret.op = "update"
    /\ Lake # {}
    /\ Len(plants) - Len(ret.new) = 19
    /\ \E k \in 1 .. Len(plants) :
          plants[k].position[1] = world.width - 1 /\ plants[k].age > 0
    /\ \E c \in Lake :
          \E i, j \in 1 .. Len(ret.new) :
              /\ ret.new[i].position = <<c[1] - 1, c[2]>>
              /\ ret.new[j].position = <<c[1] + 1, c[2]>>

\* C18: every plant of the collection has 0 < health <= 100 and 0.1 <= size
\* <= 1.0 after construction and after every update(); over an update() the
\* health of a plant does not grow and its size does not shrink; a plant
\* leaves the collection only by removal, in the update() whose grow() took
\* its health from above 0 to 0 or below.
C18_Vitals ==
    /\ [](\A k \in 1 .. Len(plants) :
             /\ plants[k].health > 0
             /\ plants[k].health <= 100 * Scale
             /\ plants[k].size >= Scale \div 10
             /\ plants[k].size <= Scale)
    /\ [][hist'.updates # hist.updates =>
            /\ \A id \in Ids(plants) \cap Ids(plants') :
                  /\ ById(plants', id).health <= ById(plants, id).health
                  /\ ById(plants', id).size >= ById(plants, id).size
            /\ \A id \in Ids(plants) \ Ids(plants') :
                  \E k \in 1 .. Len(ret'.removed) : ret'.removed[k].id = id
            /\ \A k \in 1 .. Len(ret'.removed) :
                  /\ ret'.removed[k].health <= 0
                  /\ ById(plants, ret'.removed[k].id).health > 0
                  /\ ret'.removed[k].size >= ById(plants, ret'.removed[k].id).size]_vars

\* C18's case: an update() has removed seeded plants that had grown, their
\* health used up, while an offspring that has grown and lost health lives on.
C18_Witness ==
    /\ ret.op = "update"
    /\ \E k \in 1 .. Len(ret.removed) :
          /\ ret.removed[k].health <= 0
          /\ ret.removed[k].size > (3 * Scale) \div 10
    /\ \E k \in 1 .. Len(plants) :
          /\ plants[k].id > 20
          /\ plants[k].size > Scale \div 10
          /\ plants[k].health < 100 * Scale

====
